---------------------------- MODULE Spec2Model ----------------------------
(***************************************************************************)
(* TradeLib: rebalance engine (TradeHandler), Order and Position data      *)
(* model, Portfolio and the broker adapters (Alpaca, Lemon, Sandbox).      *)
(*                                                                         *)
(* Numbers.  Python floats are modelled as exact integers.  Weights are    *)
(* counted in tenths, so 0.6 is the integer 6; money                       *)
(* amounts are whole currency units and are drawn so that every product    *)
(* weight * value is a whole number.                                       *)
(***************************************************************************)
EXTENDS Integers, Sequences, FiniteSets, TLC

VARIABLES
    \* ---- TradeHandler (TradeTranslator.py) ----
    rebalance_frame,      \* self.rebalance_frame: None or a frame
    trade_instructions,   \* self.trade_instructions: None or a list
    th_args,              \* arguments the caller passes to create_rebalance_frame
    th_call,              \* last TradeHandler call and how it ended
    first_returned,       \* the frame object the first successful
                          \* create_rebalance_frame call returned, as its
                          \* caller sees it now
    \* ---- Order construction (tradelib/model/order.py) ----
    order_args,           \* keyword arguments given to Order(...)
    order_obj,            \* the constructed Order, or the exception raised
    \* ---- broker adapters ----
    market_close_handle,  \* Alpaca.market_close_handle
    clock,                \* what the broker's clock reports
    held,                 \* broker side: quantity held per symbol
    paper,                \* Alpaca.paper
    broker_calls,         \* SDK calls made by the last adapter operation
    log_records,          \* levels of the log records the last operation emitted
    request,              \* the last adapter operation and its input
    outcome,              \* how the last adapter operation ended
    \* ---- Portfolio (tradelib/model/portfolio.py) ----
    portfolio,            \* self.positions, self.trades, self.total_value
    trading_backend,      \* what get_positions() / get_orders() return now
    refreshes,            \* refreshes since the backend's state last changed
    pf_call,              \* last Portfolio call and how it ended
    \* ---- Position (tradelib/model/order.py) ----
    position,             \* a Position: quantity and average_price
    applied,              \* the Position.update calls made so far
    \* ---- SandboxBackend (tradelib/trading/clients/sandbox.py) ----
    sandbox,              \* cash, transaction_fee, positions, orders, trades
                          \* and the two id counters
    sb_call               \* last SandboxBackend call, the state it started
                          \* from and how it ended

vars == <<rebalance_frame, trade_instructions, th_args, th_call, first_returned,
          order_args, order_obj,
          market_close_handle, clock, held, paper, broker_calls, log_records,
          request, outcome,
          portfolio, trading_backend, refreshes, pf_call,
          position, applied,
          sandbox, sb_call>>

thVars == <<rebalance_frame, trade_instructions, th_args, th_call, first_returned>>
orderVars == <<order_args, order_obj>>
adapterVars == <<market_close_handle, clock, held, paper, broker_calls, log_records,
                 request, outcome>>
portfolioVars == <<portfolio, trading_backend, refreshes, pf_call>>
positionVars == <<position, applied>>
sandboxVars == <<sandbox, sb_call>>

None == "None"

\* Python's None in an attribute that otherwise holds an object.
NoneObj == [is_none |-> TRUE]

(***************************************************************************)
(* Small helpers on sequences.                                             *)
(***************************************************************************)
Range(s) == {s[i] : i \in 1..Len(s)}

Abs(x) == IF x < 0 THEN -x ELSE x

RECURSIVE SeqSum(_)
SeqSum(s) == IF s = <<>> THEN 0 ELSE Head(s) + SeqSum(Tail(s))

(***************************************************************************)
(*                         REBALANCE ENGINE                                *)
(***************************************************************************)

\* The asset universe, in the order the dictionaries list their keys.
SymbolOrder == <<"AAPL", "MSFT", "GOOG">>
Symbols == Range(SymbolOrder)

\* Broker asset ids: the keys of portfolio_dict (Portfolio.get_portfolio_weights
\* indexes by asset_id); every asset id names one symbol.
AssetIdOrder == <<"id-AAPL", "id-MSFT", "id-GOOG">>
AssetIds == Range(AssetIdOrder)
SymbolOf == [id \in AssetIds |->
               CASE id = "id-AAPL" -> "AAPL"
                 [] id = "id-MSFT" -> "MSFT"
                 [] id = "id-GOOG" -> "GOOG"]

OldWeights == {0, 4, 6}
NewWeights == {0, 3, 4}
PortfolioValues == {-1000, 0, 1000}
AddValues == {-100, 0, 100}

\* portfolio_dict: asset_id -> {"symbol": ..., "w": ...}
PortfolioDicts ==
    UNION {{[id \in S |-> [symbol |-> SymbolOf[id], w |-> wf[id]]] :
               wf \in [S -> OldWeights]} : S \in SUBSET AssetIds}

\* w_new: symbol -> target weight
TargetWeights == UNION {[S -> NewWeights] : S \in SUBSET Symbols}

ThArgs == [portfolio_dict : PortfolioDicts,
           portfolio_value : PortfolioValues,
           w_new : TargetWeights,
           add_value : AddValues]

\* weight times value; the weight is a number of tenths
Times(w, v) == (w * v) \div 10

\* w_old_df after from_dict / rename / set_index("symbol"): the rows of the
\* old portfolio, keyed by symbol, in dictionary order.
OldFrame(portfolio_dict) ==
    LET ids == SelectSeq(AssetIdOrder, LAMBDA id : id \in DOMAIN portfolio_dict)
    IN  [i \in 1..Len(ids) |->
            [symbol |-> portfolio_dict[ids[i]].symbol,
             asset_id |-> ids[i],
             w_old |-> portfolio_dict[ids[i]].w]]

\* w_new_df: from_dict(w_new, orient="index", columns=["w_new"])
NewFrame(w_new) ==
    LET ks == SelectSeq(SymbolOrder, LAMBDA k : k \in DOMAIN w_new)
    IN  [i \in 1..Len(ks) |-> [symbol |-> ks[i], w_new |-> w_new[ks[i]]]]

IndexOf(df) == [i \in 1..Len(df) |-> df[i].symbol]

ConcatIndexInner(old_index, new_index) ==
    SelectSeq(old_index, LAMBDA k : k \in Range(new_index))

\* The index of pd.concat([w_old_df, w_new_df], axis=1): the outer join of both
\* indexes, the old keys first and then the keys only the target has.
ConcatIndex(old_index, new_index) ==
    old_index \o SelectSeq(new_index, LAMBDA k : k \notin Range(old_index))

\* The cell of column col for key k, or the fill value of fillna(0).
Cell(df, k, col, fill) ==
    IF \E i \in 1..Len(df) : df[i].symbol = k
    THEN (df[CHOOSE i \in 1..Len(df) : df[i].symbol = k])[col]
    ELSE fill

AbsOldUnweighted(w_old, portfolio_value) == portfolio_value

AbsOld(w_old, portfolio_value) == Times(w_old, portfolio_value)

AbsNewNoAdd(w_new, portfolio_value, add_value) == Times(w_new, portfolio_value)

AbsNew(w_new, portfolio_value, add_value) ==
    Times(w_new, portfolio_value + add_value)

\* The frame create_rebalance_frame builds (lines 51-60), for a non-empty
\* portfolio_dict.  asset_id is a string column; fillna(0) puts the number 0
\* there, written "0".
BuildFrame(a) ==
    LET old == OldFrame(a.portfolio_dict)
        new == NewFrame(a.w_new)
        idx == ConcatIndex(IndexOf(old), IndexOf(new))
        Row(k) ==
            LET wo == Cell(old, k, "w_old", 0)
                wn == Cell(new, k, "w_new", 0)
                ao == AbsOld(wo, a.portfolio_value)
                an == AbsNew(wn, a.portfolio_value, a.add_value)
            IN  [symbol |-> k,
                 asset_id |-> Cell(old, k, "asset_id", "0"),
                 w_old |-> wo, w_new |-> wn,
                 abs_old |-> ao, abs_new |-> an,
                 delta |-> an - ao]
    IN  [is_none |-> FALSE,
         columns |-> {"asset_id", "w_old", "w_new", "abs_old", "abs_new", "delta"},
         rows |-> [i \in 1..Len(idx) |-> Row(idx[i])]]

\* TradeHandler.create_rebalance_frame.  An empty portfolio_dict gives a frame
\* without a "symbol" column, and set_index("symbol") raises KeyError before
\* self.rebalance_frame is assigned.
\* The method returns df, the very object it stores in self.rebalance_frame
\* (lines 61-62): the caller's frame and the retained frame are one object
\* until self.rebalance_frame is assigned again.
CreateRebalanceFrame ==
    /\ IF DOMAIN th_args.portfolio_dict = {}
       THEN /\ th_call' = [op |-> "create_rebalance_frame", raised |-> "KeyError"]
            /\ UNCHANGED <<rebalance_frame, first_returned>>
       ELSE /\ rebalance_frame' = BuildFrame(th_args)
            /\ th_call' = [op |-> "create_rebalance_frame", raised |-> None]
            /\ first_returned' =
                   IF first_returned.is_none
                   THEN [is_none |-> FALSE, frame |-> BuildFrame(th_args),
                         retained |-> TRUE]
                   ELSE [first_returned EXCEPT !.retained = FALSE]
    /\ UNCHANGED <<trade_instructions, th_args>>
    /\ UNCHANGED <<orderVars, adapterVars, portfolioVars, positionVars, sandboxVars>>

SideFlipped(delta) == IF delta > 0 THEN "sell" ELSE "buy"

\* "buy" if row["delta"] > 0 else "sell"
Side(delta) == IF delta > 0 THEN "buy" ELSE "sell"

\* One instruction per row of the frame (df.iterrows()).
Instructions(frame) ==
    [i \in 1..Len(frame.rows) |->
        [symbol |-> frame.rows[i].symbol,
         side |-> Side(frame.rows[i].delta),
         quantity |-> Abs(frame.rows[i].delta),
         quantity_type |-> "value"]]

FrameCheckTypeOnly(df) == IF df.is_none THEN "TypeError" ELSE None

\* The input validation of lines 82-85: the exception raised, or None.
FrameCheck(df) ==
    IF df.is_none THEN "TypeError"
    ELSE IF "delta" \notin df.columns THEN "ValueError"
    ELSE None

\* TradeHandler.create_trade_instructions.  df is self.rebalance_frame itself,
\* so df["abs_delta"] = ... adds the column to the retained frame, and with
\* it to the frame create_rebalance_frame returned if that is still the
\* retained one.
CreateTradeInstructions ==
    /\ IF FrameCheck(rebalance_frame) # None
       THEN /\ th_call' = [op |-> "create_trade_instructions",
                           raised |-> FrameCheck(rebalance_frame)]
            /\ UNCHANGED <<rebalance_frame, trade_instructions, first_returned>>
       ELSE /\ rebalance_frame' =
                   [rebalance_frame EXCEPT !.columns = @ \cup {"abs_delta"}]
            /\ trade_instructions' =
                   [is_none |-> FALSE, items |-> Instructions(rebalance_frame)]
            /\ th_call' = [op |-> "create_trade_instructions", raised |-> None]
            /\ first_returned' =
                   IF ~first_returned.is_none /\ first_returned.retained
                   THEN [first_returned EXCEPT
                            !.frame.columns = @ \cup {"abs_delta"}]
                   ELSE first_returned
    /\ UNCHANGED th_args
    /\ UNCHANGED <<orderVars, adapterVars, portfolioVars, positionVars, sandboxVars>>

\* A caller assigning the public attribute: th.rebalance_frame =
\* th.rebalance_frame.drop(columns=["delta"]).  drop returns a new frame; the
\* rows keep the values they had, `columns` says which of them the frame has.
AssignRebalanceFrame ==
    /\ ~rebalance_frame.is_none
    /\ "delta" \in rebalance_frame.columns
    /\ rebalance_frame' = [rebalance_frame EXCEPT !.columns = @ \ {"delta"}]
    /\ th_call' = [op |-> "rebalance_frame =", raised |-> None]
    /\ first_returned' = [first_returned EXCEPT !.retained = FALSE]
    /\ UNCHANGED <<trade_instructions, th_args>>
    /\ UNCHANGED <<orderVars, adapterVars, portfolioVars, positionVars, sandboxVars>>

(***************************************************************************)
(* States in which the other components are not in use.                    *)
(***************************************************************************)
TradeHandlerIdle ==
    /\ rebalance_frame = NoneObj
    /\ trade_instructions = NoneObj
    /\ th_args = None
    /\ th_call = None
    /\ first_returned = NoneObj

OrderIdle ==
    /\ order_args = None
    /\ order_obj = NoneObj

PositionIdle ==
    /\ position = None
    /\ applied = <<>>

PortfolioIdle ==
    /\ portfolio = None
    /\ trading_backend = None
    /\ refreshes = 0
    /\ pf_call = None

SandboxIdle ==
    /\ sandbox = None
    /\ sb_call = None

AdapterIdle ==
    /\ market_close_handle = None
    /\ clock = None
    /\ held = None
    /\ paper = None
    /\ broker_calls = <<>>
    /\ log_records = <<>>
    /\ request = NoneObj
    /\ outcome = NoneObj

(***************************************************************************)
(* Specification of the rebalance engine: a TradeHandler as __init__       *)
(* leaves it, and a caller that passes th_args.                            *)
(***************************************************************************)
InitRebalance ==
    /\ rebalance_frame = NoneObj
    /\ trade_instructions = NoneObj
    /\ th_args \in ThArgs
    /\ th_call = [op |-> None, raised |-> None]
    /\ first_returned = NoneObj
    /\ OrderIdle
    /\ AdapterIdle
    /\ PortfolioIdle
    /\ PositionIdle
    /\ SandboxIdle

NextRebalance ==
    CreateRebalanceFrame \/ CreateTradeInstructions \/ AssignRebalanceFrame

SpecRebalance == InitRebalance /\ [][NextRebalance]_vars

\* The symbols of the current portfolio.
OldSymbols == {th_args.portfolio_dict[id].symbol : id \in DOMAIN th_args.portfolio_dict}

FrameRows == {rebalance_frame.rows[i] : i \in 1..Len(rebalance_frame.rows)}

ExampleArgs ==
    [portfolio_dict |-> [id \in {"id-AAPL", "id-MSFT"} |->
                            [symbol |-> SymbolOf[id],
                             w |-> IF id = "id-AAPL" THEN 6 ELSE 4]],
     portfolio_value |-> 1000,
     w_new |-> [k \in Symbols |-> IF k = "GOOG" THEN 4 ELSE 3],
     add_value |-> 0]

DeltaOf(k) == (CHOOSE r \in FrameRows : r.symbol = k).delta

\* C1: every row of the frame has abs_old = w_old * portfolio_value,
\* abs_new = w_new * (portfolio_value + add_value) and delta = abs_new - abs_old
\* (weights are tenths, hence the factor 10); and the frame of the example
\* {AAPL 0.6, MSFT 0.4} -> {AAPL 0.3, MSFT 0.3, GOOG 0.4} at value 1000 has the
\* deltas AAPL -300, MSFT -100, GOOG +400.
C1_RowArithmetic ==
    ~rebalance_frame.is_none =>
        /\ \A r \in FrameRows :
              /\ 10 * r.abs_old = r.w_old * th_args.portfolio_value
              /\ 10 * r.abs_new = r.w_new * (th_args.portfolio_value + th_args.add_value)
              /\ r.delta = r.abs_new - r.abs_old
        /\ th_args = ExampleArgs =>
              /\ DeltaOf("AAPL") = -300
              /\ DeltaOf("MSFT") = -100
              /\ DeltaOf("GOOG") = 400

C1_Witness ==
    /\ th_args = ExampleArgs
    /\ th_call = [op |-> "create_rebalance_frame", raised |-> None]
    /\ ~rebalance_frame.is_none
    /\ Len(rebalance_frame.rows) = 3

\* C2: the returned frame has exactly one row per key of the union of the
\* current portfolio's symbols and the target's keys; a key the current
\* portfolio lacks has old weight 0, a key the target lacks has new weight 0,
\* and the other weights are the ones passed in.
C2_UnionOfKeys ==
    ~rebalance_frame.is_none =>
        /\ {r.symbol : r \in FrameRows} = OldSymbols \cup DOMAIN th_args.w_new
        /\ Len(rebalance_frame.rows) = Cardinality(OldSymbols \cup DOMAIN th_args.w_new)
        /\ \A r \in FrameRows :
              /\ r.symbol \notin OldSymbols => r.w_old = 0
              /\ r.symbol \notin DOMAIN th_args.w_new => r.w_new = 0
              /\ r.symbol \in DOMAIN th_args.w_new => r.w_new = th_args.w_new[r.symbol]
              /\ \A id \in DOMAIN th_args.portfolio_dict :
                    th_args.portfolio_dict[id].symbol = r.symbol
                        => r.w_old = th_args.portfolio_dict[id].w

C2_Witness ==
    /\ ~rebalance_frame.is_none
    /\ th_call = [op |-> "create_rebalance_frame", raised |-> None]
    /\ \E r \in FrameRows : r.symbol \notin OldSymbols /\ r.w_new > 0
    /\ \E r \in FrameRows : r.symbol \notin DOMAIN th_args.w_new /\ r.w_old > 0
    /\ \E r \in FrameRows : r.symbol \in OldSymbols \cap DOMAIN th_args.w_new

InstructionsFor(k) ==
    {i \in 1..Len(trade_instructions.items) :
        trade_instructions.items[i].symbol = k}

\* C3: for every frame row with delta # 0 there is exactly one instruction
\* for that asset; its side is "buy" when delta > 0 and "sell" when delta < 0,
\* its quantity is |delta| (never negative) and its quantity_type is "value".
C3_SideAndQuantity ==
    (~trade_instructions.is_none /\ ~rebalance_frame.is_none) =>
        \A r \in FrameRows :
            r.delta # 0 =>
                /\ Cardinality(InstructionsFor(r.symbol)) = 1
                /\ \A i \in InstructionsFor(r.symbol) :
                      /\ r.delta > 0 => /\ trade_instructions.items[i].side = "buy"
                                        /\ trade_instructions.items[i].quantity = r.delta
                      /\ r.delta < 0 => /\ trade_instructions.items[i].side = "sell"
                                        /\ trade_instructions.items[i].quantity = 0 - r.delta
                      /\ trade_instructions.items[i].quantity >= 0
                      /\ trade_instructions.items[i].quantity_type = "value"

C3_Witness ==
    /\ th_call = [op |-> "create_trade_instructions", raised |-> None]
    /\ ~trade_instructions.is_none
    /\ \E r \in FrameRows : r.delta > 0
    /\ \E r \in FrameRows : r.delta < 0

\* C12: create_trade_instructions on a TradeHandler on which
\* create_rebalance_frame was never called, or whose retained frame has no
\* "delta" column, raises and leaves trade_instructions as it was; called
\* right after a successful create_rebalance_frame it does not raise.
C12_UsageErrors ==
    [][th_call'.op = "create_trade_instructions" =>
          /\ (rebalance_frame.is_none \/ "delta" \notin rebalance_frame.columns) =>
                /\ th_call'.raised \in {"TypeError", "ValueError"}
                /\ trade_instructions' = trade_instructions
          /\ th_call = [op |-> "create_rebalance_frame", raised |-> None] =>
                /\ th_call'.raised = None
                /\ ~trade_instructions'.is_none]_vars

C12_Witness ==
    /\ th_call = [op |-> "create_trade_instructions", raised |-> "ValueError"]
    /\ ~rebalance_frame.is_none
    /\ "delta" \notin rebalance_frame.columns
    /\ ~trade_instructions.is_none

\* The sum of a column of the retained frame (df[col].sum()).
ColumnSum(col) ==
    SeqSum([i \in 1..Len(rebalance_frame.rows) |-> rebalance_frame.rows[i][col]])

\* The sums of the weights passed in, in tenths.
TargetWeightSum ==
    SeqSum([i \in 1..Len(NewFrame(th_args.w_new)) |->
               NewFrame(th_args.w_new)[i].w_new])
OldWeightSum ==
    SeqSum([i \in 1..Len(OldFrame(th_args.portfolio_dict)) |->
               OldFrame(th_args.portfolio_dict)[i].w_old])

\* C13: when the target weights sum to 1 the abs_new column of the frame
\* sums to portfolio_value + add_value, whatever the sign of the two; when
\* the old weights sum to 1 as well, the delta column sums to add_value.
C13_SumsPreserved ==
    (~rebalance_frame.is_none /\ "delta" \in rebalance_frame.columns
        /\ TargetWeightSum = 10) =>
        /\ ColumnSum("abs_new") = th_args.portfolio_value + th_args.add_value
        /\ OldWeightSum = 10 => ColumnSum("delta") = th_args.add_value

C13_Witness ==
    /\ th_call = [op |-> "create_rebalance_frame", raised |-> None]
    /\ TargetWeightSum = 10
    /\ OldWeightSum = 10
    /\ th_args.portfolio_value = 1000
    /\ th_args.add_value = -100
    /\ ColumnSum("abs_new") = 900
    /\ ColumnSum("delta") = -100
    /\ \E r \in FrameRows : r.w_old = 0

\* C14: a create_rebalance_frame call with the same arguments as the first
\* one yields a frame identical to the one the first call yielded, also when
\* create_trade_instructions ran in between.
C14_SameInputsSameFrame ==
    (/\ th_call = [op |-> "create_rebalance_frame", raised |-> None]
     /\ ~first_returned.is_none) =>
        rebalance_frame = first_returned.frame

\* C15: a row whose delta is 0 gets no instruction: there are as many
\* instructions as rows with delta # 0.
C15_ZeroDeltaExcluded ==
    (/\ th_call = [op |-> "create_trade_instructions", raised |-> None]
     /\ ~trade_instructions.is_none) =>
        /\ Len(trade_instructions.items)
              = Cardinality({i \in 1..Len(rebalance_frame.rows) :
                                rebalance_frame.rows[i].delta # 0})
        /\ \A r \in FrameRows : r.delta = 0 => InstructionsFor(r.symbol) = {}


\* C29: create_trade_instructions leaves the retained frame, and the frame
\* create_rebalance_frame returned, with the rows, columns and values they
\* had; called again right after a successful call it leaves the same
\* instruction list.
C29_FrameNotModified ==
    [][th_call'.op = "create_trade_instructions" =>
          /\ rebalance_frame' = rebalance_frame
          /\ first_returned' = first_returned
          /\ th_call = [op |-> "create_trade_instructions", raised |-> None] =>
                trade_instructions' = trade_instructions]_vars

(***************************************************************************)
(*                    ORDER (tradelib/model/order.py)                      *)
(***************************************************************************)

\* A member of an Enum class, and a plain Python string.  A member equals
\* only itself: a string never equals a member and is not found in a set of
\* members, whatever its text.
Member(cls, v) == [cls |-> cls, value |-> v]
Str(v) == [cls |-> "str", value |-> v]

OrderSideValues == {"buy", "sell"}
OrderTypeValues == {"market", "limit", "stop", "stop_limit", "trailing_stop"}
QuantityModeValues == {"shares", "notional"}
OrderStatusValues == {"pending", "filled", "canceled", "rejected", "expired"}

EnumValues(cls) ==
    CASE cls = "OrderSide" -> OrderSideValues
      [] cls = "OrderType" -> OrderTypeValues
      [] cls = "QuantityMode" -> QuantityModeValues
      [] cls = "OrderStatus" -> OrderStatusValues

\* Enum.__call__: EnumClass(x) returns the member x, or the member whose value
\* is x, and raises ValueError otherwise.
EnumAccepts(cls, x) ==
    \/ x.cls = cls
    \/ x.cls = "str" /\ x.value \in EnumValues(cls)

EnumCall(cls, x) == Member(cls, x.value)

\* An optional number that is not None.
Some(n) == [is_none |-> FALSE, value |-> n]

OrderValidateStrict(o) ==
    IF o.quantity <= 0 THEN "ValueError"
    ELSE IF ~o.limit_price.is_none /\ o.limit_price.value < 0 THEN "ValueError"
    ELSE IF ~o.stop_price.is_none /\ o.stop_price.value < 0 THEN "ValueError"
    ELSE IF o.order_type = Member("OrderType", "limit") /\ o.limit_price.is_none
         THEN "ValueError"
    ELSE IF o.order_type = Member("OrderType", "stop") /\ o.stop_price.is_none
         THEN "ValueError"
    ELSE IF /\ o.order_type = Member("OrderType", "stop_limit")
            /\ (o.stop_price.is_none \/ o.limit_price.is_none)
         THEN "ValueError"
    ELSE None

\* Order.validate (lines 25-40): the exception it raises, or None.  The
\* comparisons with OrderType members are Python comparisons of self.order_type
\* as it is when validate runs.
OrderValidate(o) ==
    IF o.quantity < 0 THEN "ValueError"
    ELSE IF ~o.limit_price.is_none /\ o.limit_price.value < 0 THEN "ValueError"
    ELSE IF ~o.stop_price.is_none /\ o.stop_price.value < 0 THEN "ValueError"
    ELSE IF o.order_type = Member("OrderType", "limit") /\ o.limit_price.is_none
         THEN "ValueError"
    ELSE IF o.order_type = Member("OrderType", "stop") /\ o.stop_price.is_none
         THEN "ValueError"
    ELSE IF /\ o.order_type = Member("OrderType", "stop_limit")
            /\ (o.stop_price.is_none \/ o.limit_price.is_none)
         THEN "ValueError"
    ELSE None

\* The four conversions of __post_init__ (lines 44-47).
OrderCoercible(o) ==
    /\ EnumAccepts("OrderSide", o.order_side)
    /\ EnumAccepts("QuantityMode", o.quantity_mode)
    /\ EnumAccepts("OrderStatus", o.status)
    /\ EnumAccepts("OrderType", o.order_type)

OrderCoerced(o) ==
    [o EXCEPT !.order_side = EnumCall("OrderSide", @),
              !.quantity_mode = EnumCall("QuantityMode", @),
              !.status = EnumCall("OrderStatus", @),
              !.order_type = EnumCall("OrderType", @)]

\* Order.__post_init__: validate first, convert afterwards.
PostInit(o) ==
    IF OrderValidate(o) # None THEN [raised |-> OrderValidate(o)]
    ELSE IF ~OrderCoercible(o) THEN [raised |-> "ValueError"]
    ELSE [raised |-> None, order |-> OrderCoerced(o)]

\* The ways a caller can give an enum field: a member, its value, or a
\* string that is no value of the enum.
Given(cls, vs) == {Member(cls, v) : v \in vs} \cup {Str(v) : v \in vs \cup {"bogus"}}

OrderQuantities == {-1, 0, 100}
OrderPrices == {NoneObj, Some(-1), Some(0), Some(150)}

\* Keyword arguments of Order(...), the defaults of lines 14-17 filled in.
OrderArgs ==
    [symbol : {"AAPL"},
     quantity : OrderQuantities,
     order_side : Given("OrderSide", {"buy", "sell"}),
     quantity_mode : {Member("QuantityMode", "notional")},
     status : {Member("OrderStatus", "pending")},
     order_type : Given("OrderType", {"market", "limit", "stop", "stop_limit"}),
     stop_price : OrderPrices,
     limit_price : OrderPrices]

\* Order(**order_args): the dataclass __init__ stores the fields and calls
\* __post_init__.
ConstructOrder ==
    /\ order_obj = NoneObj
    /\ order_obj' = [is_none |-> FALSE, call |-> "Order"] @@ PostInit(order_args)
    /\ UNCHANGED order_args
    /\ UNCHANGED <<thVars, adapterVars, portfolioVars, positionVars, sandboxVars>>

\* order.validate() on an Order that exists (as the tests call it).
ValidateOrder ==
    /\ ~order_obj.is_none
    /\ order_obj.call = "Order"
    /\ order_obj.raised = None
    /\ order_obj' = [order_obj EXCEPT !.call = "validate",
                                      !.raised = OrderValidate(order_obj.order)]
    /\ UNCHANGED order_args
    /\ UNCHANGED <<thVars, adapterVars, portfolioVars, positionVars, sandboxVars>>

InitOrder ==
    /\ order_args \in OrderArgs
    /\ order_obj = NoneObj
    /\ TradeHandlerIdle
    /\ AdapterIdle
    /\ PortfolioIdle
    /\ PositionIdle
    /\ SandboxIdle

NextOrder == ConstructOrder \/ ValidateOrder

SpecOrder == InitOrder /\ [][NextOrder]_vars

\* The order type the caller asked for, whichever way it was given.
AskedType == order_args.order_type.value

MissingTypePrice ==
    \/ AskedType = "limit" /\ order_args.limit_price.is_none
    \/ AskedType = "stop" /\ order_args.stop_price.is_none
    \/ AskedType = "stop_limit"
          /\ (order_args.stop_price.is_none \/ order_args.limit_price.is_none)

\* C10: constructing a limit order without limit_price, a stop order without
\* stop_price or a stop-limit order without both raises at construction,
\* whether the order type is given as an OrderType member or as its string
\* value.
C10_TypePricesRequired ==
    (~order_obj.is_none /\ MissingTypePrice) => order_obj.raised = "ValueError"

NegativeNumber ==
    \/ order_args.quantity < 0
    \/ ~order_args.limit_price.is_none /\ order_args.limit_price.value < 0
    \/ ~order_args.stop_price.is_none /\ order_args.stop_price.value < 0

\* C11: Order(...) with quantity < 0, or with a limit_price or stop_price that
\* is given and < 0, raises ValueError and leaves no Order; with quantity >= 0,
\* non-negative prices, the prices its type requires and enum arguments the
\* enums accept it succeeds, its status is the default PENDING and its order
\* type, when left at the default, is MARKET.
C11_NumbersValidated ==
    (~order_obj.is_none /\ order_obj.call = "Order") =>
        /\ NegativeNumber =>
              /\ order_obj.raised = "ValueError"
              /\ "order" \notin DOMAIN order_obj
        /\ (~NegativeNumber /\ ~MissingTypePrice /\ OrderCoercible(order_args)) =>
              /\ order_obj.raised = None
              /\ order_obj.order.quantity = order_args.quantity
              /\ order_obj.order.status = Member("OrderStatus", "pending")
              /\ order_args.order_type = Member("OrderType", "market") =>
                    order_obj.order.order_type = Member("OrderType", "market")

C11_Witness ==
    /\ ~order_obj.is_none
    /\ order_obj.call = "Order"
    /\ order_args.quantity < 0
    /\ order_args.limit_price = NoneObj
    /\ order_args.stop_price = NoneObj
    /\ order_obj.raised = "ValueError"


(***************************************************************************)
(*            ALPACA CLIENT (tradelib/trading/clients/alpaca.py)           *)
(***************************************************************************)

\* market_close_offset, in minutes (the constructor's default).
MarketCloseOffset == 2

\* What trading_client.get_clock() reports: the market is open and closes in
\* an hour, is open and closes in a minute, or is closed.
Clocks == {[is_open |-> TRUE, next_close_minutes |-> 60],
           [is_open |-> TRUE, next_close_minutes |-> 1],
           [is_open |-> FALSE, next_close_minutes |-> 1050]}

\* The clock once time.sleep(next_open_seconds) has returned: the market has
\* just opened.
ClockAtNextOpen == [is_open |-> TRUE, next_close_minutes |-> 390]

\* The condition of line 108.
MarketIsOpen(clk) ==
    clk.is_open /\ clk.next_close_minutes * 60 > MarketCloseOffset * 60

\* Values market_close_handle can hold: the constructor stores its argument
\* unchecked, "hold" stands for any string that is not one of the three.
MarketCloseHandles == {"wait", "raise", "ignore", "hold"}

\* The running state of one adapter operation: the broker's clock, the SDK
\* calls made so far and the log records emitted so far.
Running(clk) == [clock |-> clk, calls |-> <<>>, logs |-> <<>>]

Called(st, c) == [st EXCEPT !.calls = Append(@, c)]
Logged(st, level) == [st EXCEPT !.logs = Append(@, level)]

CheckMarketStatusNoRaise(handle, st0) ==
    LET st == Called(st0, [call |-> "get_clock"])
    IN  IF MarketIsOpen(st.clock) THEN [raised |-> None, st |-> Logged(st, "debug")]
        ELSE IF handle = "wait"
             THEN [raised |-> None,
                   st |-> [Logged(st, "info") EXCEPT !.clock = ClockAtNextOpen]]
        ELSE [raised |-> None, st |-> Logged(st, "debug")]

CheckMarketStatusNoSleep(handle, st0) ==
    LET st == Called(st0, [call |-> "get_clock"])
    IN  IF MarketIsOpen(st.clock) THEN [raised |-> None, st |-> Logged(st, "debug")]
        ELSE IF handle = "wait" THEN [raised |-> None, st |-> Logged(st, "info")]
        ELSE IF handle = "raise" THEN [raised |-> "ValueError", st |-> st]
        ELSE IF handle = "ignore" THEN [raised |-> None, st |-> Logged(st, "debug")]
        ELSE [raised |-> None, st |-> st]

\* Alpaca.check_market_status (lines 100-120).  A handle that is none of
\* "wait", "raise", "ignore" matches no branch and the method returns.
CheckMarketStatus(handle, st0) ==
    LET st == Called(st0, [call |-> "get_clock"])
    IN  IF MarketIsOpen(st.clock) THEN [raised |-> None, st |-> Logged(st, "debug")]
        ELSE IF handle = "wait"
             THEN [raised |-> None,
                   st |-> [Logged(st, "info") EXCEPT !.clock = ClockAtNextOpen]]
        ELSE IF handle = "raise" THEN [raised |-> "ValueError", st |-> st]
        ELSE IF handle = "ignore" THEN [raised |-> None, st |-> Logged(st, "debug")]
        ELSE [raised |-> None, st |-> st]

\* ORDER_STATUS_MAP (lines 46-65)
ORDER_STATUS_MAP(status) ==
    CASE status \in {"filled", "done_for_day", "accepted"} -> "filled"
      [] status = "canceled" -> "canceled"
      [] status = "expired" -> "expired"
      [] status = "rejected" -> "rejected"
      [] OTHER -> "pending"

OrderQuantityTranslatorSwapped(quantity, quantity_mode) ==
    IF quantity_mode = Member("QuantityMode", "shares")
    THEN [raised |-> None, shares |-> NoneObj, notional |-> Some(quantity)]
    ELSE IF quantity_mode = Member("QuantityMode", "notional")
    THEN [raised |-> None, shares |-> Some(quantity), notional |-> NoneObj]
    ELSE [raised |-> "ValueError"]

\* Alpaca._order_quantity_translator (lines 274-289): (shares, notional)
OrderQuantityTranslator(quantity, quantity_mode) ==
    IF quantity_mode = Member("QuantityMode", "shares")
    THEN [raised |-> None, shares |-> Some(quantity), notional |-> NoneObj]
    ELSE IF quantity_mode = Member("QuantityMode", "notional")
    THEN [raised |-> None, shares |-> NoneObj, notional |-> Some(quantity)]
    ELSE [raised |-> "ValueError"]

\* OrderSide as alpaca.py sees it: line 9 imports the SDK's
\* alpaca.trading.enums.OrderSide, while Order.order_side is a member of
\* tradelib.model.enums.OrderSide (order.py line 44).
SdkOrderSideSell == Member("alpaca.trading.enums.OrderSide", "sell")

\* Alpaca._check_sell_all_order (lines 291-302).  Past the comparison of
\* line 293 the method calls self.get_specific_position, which this class
\* does not define.
CheckSellAllOrder(order, st) ==
    IF order.order_side # SdkOrderSideSell
    THEN [raised |-> None, value |-> FALSE, st |-> st]
    ELSE [raised |-> "AttributeError", st |-> st]

\* What the broker does with a submitted order: it answers with an order in
\* some status, or the SDK raises APIError.
BrokerAnswers == {"new", "accepted", "rejected", "APIError"}

\* Alpaca._create_order_obj (lines 347-373), the fields the model keeps.
CreateOrderObj(order, answer) ==
    [symbol |-> order.symbol,
     order_side |-> order.order_side,
     quantity |-> order.quantity,
     quantity_mode |-> order.quantity_mode,
     status |-> Member("OrderStatus", ORDER_STATUS_MAP(answer))]

\* Alpaca.place_order (lines 189-227) for an Order or a dict, the broker
\* answering `answer` if the order reaches it.  Every SDK call is recorded
\* with the state of the market at the moment of the call.
PlaceOrder(handle, given, answer, st0) ==
    LET built == IF given.is_dict THEN PostInit(given.args)
                 ELSE [raised |-> None, order |-> given.order]
    IN  IF built.raised # None THEN [raised |-> built.raised, st |-> st0]
        ELSE
        LET order == built.order
            q == OrderQuantityTranslator(order.quantity, order.quantity_mode)
        IN  IF q.raised # None THEN [raised |-> q.raised, st |-> st0]
            ELSE
            LET sell_all == CheckSellAllOrder(order, st0)
            IN  IF sell_all.raised # None
                THEN [raised |-> sell_all.raised, st |-> sell_all.st]
                ELSE
                LET ready == IF sell_all.value THEN sell_all.st
                             ELSE Logged(Logged(sell_all.st, "debug"), "debug")
                    gate == CheckMarketStatus(handle, ready)
                    call == IF sell_all.value
                            THEN [call |-> "close_position",
                                  symbol |-> order.symbol,
                                  market_open |-> MarketIsOpen(gate.st.clock)]
                            ELSE [call |-> "submit_order",
                                  symbol |-> order.symbol,
                                  side |-> order.order_side.value,
                                  qty |-> q.shares,
                                  notional |-> q.notional,
                                  market_open |-> MarketIsOpen(gate.st.clock)]
                IN  IF gate.raised # None
                    THEN [raised |-> gate.raised, st |-> gate.st]
                    ELSE IF answer = "APIError"
                    THEN [raised |-> "APIError", st |-> Called(gate.st, call)]
                    ELSE [raised |-> None,
                          value |-> CreateOrderObj(order, answer),
                          st |-> Logged(Called(gate.st, call), "info")]

\* Alpaca.place_bulk_orders (lines 229-241): a list comprehension over
\* place_order; an exception leaves the comprehension and the method.
RECURSIVE PlaceBulkOrders(_, _, _, _, _)
PlaceBulkOrders(handle, orders, answers, st, responses) ==
    IF orders = <<>>
    THEN [raised |-> None, value |-> responses, st |-> Logged(st, "info")]
    ELSE LET r == PlaceOrder(handle, Head(orders), Head(answers), st)
         IN  IF r.raised # None THEN [raised |-> r.raised, st |-> r.st]
             ELSE PlaceBulkOrders(handle, Tail(orders), Tail(answers), r.st,
                                  Append(responses, r.value))

\* self.order_fee (line 98)
OrderFee == 1

\* float(x) for what the SDK order holds in filled_avg_price / filled_qty:
\* None, or Some(n) standing for the decimal string of n.
FloatRaises(x) == x.is_none

\* The filter of line 257, on the status _create_order_obj gave the order.
NotCanceled(b) == ORDER_STATUS_MAP(b.status) # "canceled"

\* The Trade of lines 261-270 for one order of get_orders.
TradeOf(is_paper, b) ==
    [order |-> CreateOrderObj([symbol |-> b.symbol,
                               order_side |-> Member("OrderSide", b.side),
                               quantity |-> b.qty,
                               quantity_mode |-> Member("QuantityMode", "shares")],
                              b.status),
     execution_price |-> b.filled_avg_price.value,
     execution_quantity |-> b.filled_qty.value,
     quantity_mode |-> Member("QuantityMode", "shares"),
     id |-> b.id,
     fees |-> IF is_paper THEN 0 ELSE OrderFee]

\* Alpaca.get_trades (lines 253-272), `response` being what
\* trading_client.get_orders answers to the request for closed orders.
\* float(None) raises TypeError.
GetTrades(is_paper, response, st0) ==
    LET st == Logged(Called(st0, [call |-> "get_orders", status |-> "closed"]),
                     "info")
        closed_orders == SelectSeq(response, NotCanceled)
    IN  IF \E i \in 1..Len(closed_orders) :
               \/ FloatRaises(closed_orders[i].filled_avg_price)
               \/ FloatRaises(closed_orders[i].filled_qty)
        THEN [raised |-> "TypeError", st |-> st]
        ELSE [raised |-> None,
              value |-> [i \in 1..Len(closed_orders) |->
                            TradeOf(is_paper, closed_orders[i])],
              st |-> st]


\* ---- callers of the Alpaca client ----

AlpacaSymbols == {"AAPL", "MSFT"}

\* An Order object as Order(asset, quantity, order_side, quantity_mode) leaves
\* it: a market order, its enum fields converted.
MarketOrder(symbol, side, quantity, mode) ==
    [symbol |-> symbol,
     quantity |-> quantity,
     order_side |-> Member("OrderSide", side),
     quantity_mode |-> Member("QuantityMode", mode),
     status |-> Member("OrderStatus", "pending"),
     order_type |-> Member("OrderType", "market"),
     stop_price |-> NoneObj,
     limit_price |-> NoneObj]

AnOrder(o) == [is_dict |-> FALSE, order |-> o]
ADict(a) == [is_dict |-> TRUE, args |-> a]

SellQuantities == {5, 20}

\* Orders a caller passes to place_order: Order objects, and dicts of
\* keyword arguments for a market order.
PlaceOrderInputs ==
    {AnOrder(MarketOrder(sym, side, q, mode)) :
        sym \in AlpacaSymbols, side \in OrderSideValues,
        q \in SellQuantities, mode \in QuantityModeValues}
    \cup
    {ADict(a) : a \in {x \in OrderArgs :
                          /\ x.order_type = Str("market")
                          /\ x.order_side.cls = "str"
                          /\ x.stop_price = NoneObj
                          /\ x.limit_price = NoneObj}}

\* Orders of a batch.
BulkOrderInputs ==
    {AnOrder(MarketOrder("AAPL", "buy", 5, "notional")),
     AnOrder(MarketOrder("AAPL", "sell", 5, "shares")),
     AnOrder(MarketOrder("AAPL", "sell", 20, "shares")),
     AnOrder(MarketOrder("MSFT", "sell", 20, "notional"))}

BulkAnswers == {"new", "rejected", "APIError"}

\* Longest batch the model passes to place_bulk_orders.
MaxBulk == 3

SeqsUpTo(S, n) == UNION {[1..k -> S] : k \in 0..n}

\* Positions at the broker: 10 shares of AAPL, and MSFT held or not.
HeldChoices == {[sym \in AlpacaSymbols |-> IF sym = "AAPL" THEN 10 ELSE m] :
                   m \in {0, 10}}

Finished(op, orders, answers, clk, r) ==
    /\ request' = [is_none |-> FALSE, op |-> op, orders |-> orders,
                   answers |-> answers, clock |-> clk]
    /\ outcome' = [is_none |-> FALSE, raised |-> r.raised,
                   value |-> IF r.raised = None THEN r.value ELSE <<>>]
    /\ broker_calls' = r.st.calls
    /\ log_records' = r.st.logs
    /\ clock' = r.st.clock

AlpacaPlaceOrder ==
    /\ request.is_none
    /\ \E given \in PlaceOrderInputs, answer \in BrokerAnswers :
          Finished("place_order", <<given>>, <<answer>>, clock,
                   PlaceOrder(market_close_handle, given, answer, Running(clock)))
    /\ UNCHANGED <<market_close_handle, held, paper>>
    /\ UNCHANGED <<thVars, orderVars, portfolioVars, positionVars, sandboxVars>>

AlpacaPlaceBulkOrders ==
    /\ request.is_none
    /\ \E orders \in SeqsUpTo(BulkOrderInputs, MaxBulk) :
          \E answers \in [1..Len(orders) -> BulkAnswers] :
              Finished("place_bulk_orders", orders, answers, clock,
                       PlaceBulkOrders(market_close_handle, orders, answers,
                                       Running(clock), <<>>))
    /\ UNCHANGED <<market_close_handle, held, paper>>
    /\ UNCHANGED <<thVars, orderVars, portfolioVars, positionVars, sandboxVars>>

\* Closed orders as the broker reports them: filled; canceled or expired
\* with nothing filled or with a part filled; rejected.  An order nothing of
\* which was filled has no filled_avg_price.
BrokerClosedOrders ==
    {[status |-> "filled", filled_avg_price |-> Some(150), filled_qty |-> Some(100)],
     [status |-> "canceled", filled_avg_price |-> NoneObj, filled_qty |-> Some(0)],
     [status |-> "canceled", filled_avg_price |-> Some(150), filled_qty |-> Some(40)],
     [status |-> "expired", filled_avg_price |-> NoneObj, filled_qty |-> Some(0)],
     [status |-> "expired", filled_avg_price |-> Some(150), filled_qty |-> Some(40)],
     [status |-> "rejected", filled_avg_price |-> NoneObj, filled_qty |-> Some(0)]}

\* Most closed orders get_orders returns.
MaxClosed == 2

\* The k-th order of a response: its id is k.
BrokerOrder(k, b) ==
    [id |-> k, symbol |-> "AAPL", side |-> "buy", qty |-> 100] @@ b

AlpacaGetTrades ==
    /\ request.is_none
    /\ \E picked \in SeqsUpTo(BrokerClosedOrders, MaxClosed) :
          LET response == [k \in 1..Len(picked) |-> BrokerOrder(k, picked[k])]
          IN  Finished("get_trades", response, <<>>, clock,
                       GetTrades(paper, response, Running(clock)))
    /\ UNCHANGED <<market_close_handle, held, paper>>
    /\ UNCHANGED <<thVars, orderVars, portfolioVars, positionVars, sandboxVars>>

\* An Alpaca client as __init__ leaves it, and the broker it talks to.
InitAlpaca ==
    /\ market_close_handle \in MarketCloseHandles
    /\ clock \in Clocks
    /\ held \in HeldChoices
    /\ paper \in BOOLEAN
    /\ broker_calls = <<>>
    /\ log_records = <<>>
    /\ request = NoneObj
    /\ outcome = NoneObj
    /\ TradeHandlerIdle
    /\ OrderIdle
    /\ PortfolioIdle
    /\ PositionIdle
    /\ SandboxIdle

NextAlpaca == AlpacaPlaceOrder \/ AlpacaPlaceBulkOrders \/ AlpacaGetTrades

SpecAlpaca == InitAlpaca /\ [][NextAlpaca]_vars


\* ---- the static helper called on its own ----

TranslatorQuantities == -5..20

\* Modes a caller can pass: the two members, their string values, another
\* string, None.
TranslatorModes ==
    Given("QuantityMode", QuantityModeValues) \cup {[cls |-> "NoneType", value |-> None]}

\* Alpaca._order_quantity_translator(request.quantity, request.quantity_mode)
TranslateOrderQuantity ==
    /\ ~request.is_none
    /\ request.op = "_order_quantity_translator"
    /\ outcome.is_none
    /\ outcome' = [is_none |-> FALSE]
                     @@ OrderQuantityTranslator(request.quantity, request.quantity_mode)
    /\ UNCHANGED <<market_close_handle, clock, held, paper, broker_calls, log_records,
                   request>>
    /\ UNCHANGED <<thVars, orderVars, portfolioVars, positionVars, sandboxVars>>

InitTranslator ==
    /\ request \in [is_none : {FALSE}, op : {"_order_quantity_translator"},
                     quantity : TranslatorQuantities, quantity_mode : TranslatorModes]
    /\ outcome = NoneObj
    /\ market_close_handle = None
    /\ clock = None
    /\ held = None
    /\ paper = None
    /\ broker_calls = <<>>
    /\ log_records = <<>>
    /\ TradeHandlerIdle
    /\ OrderIdle
    /\ PortfolioIdle
    /\ PositionIdle
    /\ SandboxIdle

NextTranslator == TranslateOrderQuantity

SpecTranslator == InitTranslator /\ [][NextTranslator]_vars

\* C20: _order_quantity_translator(quantity, mode) returns (quantity, None)
\* for QuantityMode.SHARES and (None, quantity) for QuantityMode.NOTIONAL,
\* the quantity unchanged and exactly one component populated, and raises
\* ValueError for every other mode value.
C20_ExactlyOnePopulated ==
    (~request.is_none /\ request.op = "_order_quantity_translator"
        /\ ~outcome.is_none) =>
        /\ request.quantity_mode = Member("QuantityMode", "shares") =>
              /\ outcome.raised = None
              /\ outcome.shares = Some(request.quantity)
              /\ outcome.notional = NoneObj
        /\ request.quantity_mode = Member("QuantityMode", "notional") =>
              /\ outcome.raised = None
              /\ outcome.shares = NoneObj
              /\ outcome.notional = Some(request.quantity)
        /\ request.quantity_mode.cls # "QuantityMode" =>
              outcome.raised = "ValueError"
        /\ outcome.raised = None =>
              outcome.shares.is_none # outcome.notional.is_none

C20_Witness ==
    /\ ~request.is_none
    /\ request.op = "_order_quantity_translator"
    /\ request.quantity = 0
    /\ request.quantity_mode = Member("QuantityMode", "notional")
    /\ ~outcome.is_none
    /\ outcome.raised = None
    /\ outcome.notional = Some(0)
    /\ outcome.shares = NoneObj

(***************************************************************************)
(*     LEMON BACKEND (TradeHandlerService/TradingBackends/LemonClass.py)   *)
(***************************************************************************)

\* The latest quote the market-data API returns: ask and bid.
Quote == [a |-> 2, b |-> 1]

\* Lemon.convert_to_hcents (lines 349-362): int(amount * 10_000)
ConvertToHcents(amount) == amount * 10000

\* int(Decimal(x).quantize(0, ROUND_HALF_UP)) of the quotient n/d, for n >= 0
\* and d > 0.
RoundHalfUp(n, d) == (2 * n + d) \div (2 * d)

\* Lemon.value_to_amount (lines 333-346); one market-data call.
ValueToAmount(side, value) ==
    LET price == IF side = "buy" THEN Quote.a ELSE Quote.b
    IN  RoundHalfUp(value, ConvertToHcents(price))

\* What orders.create answers: an order, inactive until it is activated, or
\* the SDK raises.
LemonAnswers == {"inactive", "APIError"}

\* Lines 196-199: a sell of more than the portfolio holds is cut down to what
\* it holds.
LemonSellClamp(order_amount, amount_available) ==
    IF order_amount > amount_available THEN amount_available ELSE order_amount

\* Lemon.place_order (lines 142-225).  pf_dict maps an ISIN to {"quantity": n};
\* pf_dict.get(isin) is None for an ISIN that is not a key, and subscripting
\* None raises TypeError.
LemonPlaceOrder(isin, side, quantity, quantity_type, pf_dict, activate, answer, st0) ==
    IF side \notin {"buy", "sell"} THEN [raised |-> "ValueError", st |-> st0]
    ELSE IF quantity < 0 THEN [raised |-> "ValueError", st |-> st0]
    ELSE IF quantity_type \notin {"amount", "value"}
         THEN [raised |-> "ValueError", st |-> st0]
    ELSE
    LET st1 == IF quantity_type = "amount" THEN st0
               ELSE Called(st0, [call |-> "quotes.get_latest", isin |-> isin])
        translated == IF quantity_type = "amount" THEN quantity
                      ELSE ValueToAmount(side, quantity)
    IN  IF side = "sell" /\ isin \notin DOMAIN pf_dict
        THEN [raised |-> "TypeError", st |-> st1]
        ELSE
        LET clamp == side = "sell" /\ translated > pf_dict[isin].quantity
            order_amount == IF side = "sell"
                            THEN LemonSellClamp(translated, pf_dict[isin].quantity)
                            ELSE translated
            st2 == IF clamp THEN Logged(st1, "warning") ELSE st1
        IN  IF order_amount <= 0
            THEN [raised |-> None, value |-> NoneObj, st |-> Logged(st2, "warning")]
            ELSE
            LET st3 == Called(st2, [call |-> "orders.create", isin |-> isin,
                                    side |-> side, quantity |-> order_amount])
            IN  IF answer = "APIError" THEN [raised |-> "APIError", st |-> st3]
                ELSE IF activate /\ answer = "inactive"
                THEN [raised |-> None,
                      value |-> [is_none |-> FALSE, isin |-> isin, activated |-> TRUE],
                      st |-> Logged(Called(st3, [call |-> "orders.activate",
                                                 isin |-> isin]), "info")]
                ELSE IF activate
                THEN [raised |-> "UnboundLocalError", st |-> Logged(st3, "info")]
                ELSE [raised |-> None,
                      value |-> [is_none |-> FALSE, isin |-> isin, activated |-> FALSE],
                      st |-> Logged(st3, "info")]

\* Lemon.place_multi_order (lines 253-295): a loop over place_order; an
\* exception leaves the loop and the method.  Every order dict of the model
\* has the four required keys.
RECURSIVE LemonPlaceMultiOrder(_, _, _, _, _, _)
LemonPlaceMultiOrder(order_list, pf_dict, activate, answers, st, order_responses) ==
    IF order_list = <<>>
    THEN [raised |-> None, value |-> order_responses, st |-> Logged(st, "info")]
    ELSE LET o == Head(order_list)
             r == LemonPlaceOrder(o.isin, o.side, o.quantity, o.quantity_type,
                                  pf_dict, activate, Head(answers), st)
         IN  IF r.raised # None THEN [raised |-> r.raised, st |-> r.st]
             ELSE LemonPlaceMultiOrder(Tail(order_list), pf_dict, activate,
                                       Tail(answers), r.st,
                                       Append(order_responses, r.value))

\* ---- callers of the Lemon backend ----

\* ISINs: two the portfolio holds (of the second, nothing) and one it does
\* not list.
Isins == {"DE000A", "DE000B", "DE000C"}

PfDicts == {[i \in {"DE000A", "DE000B"} |->
               [quantity |-> IF i = "DE000A" THEN 10 ELSE 0]]}

LemonQuantities == {-1, 0, 5, 20, 4999, 5000}

LemonOrderDicts ==
    [isin : Isins,
     side : {"buy", "sell", "short"},
     quantity : LemonQuantities,
     quantity_type : {"amount", "value", "shares"}]

LemonBatchDicts ==
    {[isin |-> "DE000A", side |-> "buy", quantity |-> 5, quantity_type |-> "amount"],
     [isin |-> "DE000A", side |-> "sell", quantity |-> 20, quantity_type |-> "amount"],
     [isin |-> "DE000B", side |-> "sell", quantity |-> 5, quantity_type |-> "amount"],
     [isin |-> "DE000C", side |-> "sell", quantity |-> 5, quantity_type |-> "amount"]}

\* Here `held` is pf_dict, the portfolio the caller passes in.
LemonFinished(op, orders, activate, answers, r) ==
    /\ request' = [is_none |-> FALSE, op |-> op, orders |-> orders,
                   activate |-> activate, answers |-> answers]
    /\ outcome' = [is_none |-> FALSE, raised |-> r.raised,
                   value |-> IF r.raised = None THEN r.value ELSE <<>>]
    /\ broker_calls' = r.st.calls
    /\ log_records' = r.st.logs

LemonPlaceOrderCall ==
    /\ request.is_none
    /\ \E o \in LemonOrderDicts, activate \in BOOLEAN, answer \in LemonAnswers :
          LemonFinished("place_order", <<o>>, activate, <<answer>>,
                        LemonPlaceOrder(o.isin, o.side, o.quantity, o.quantity_type,
                                        held, activate, answer, Running(clock)))
    /\ UNCHANGED <<market_close_handle, clock, held, paper>>
    /\ UNCHANGED <<thVars, orderVars, portfolioVars, positionVars, sandboxVars>>

LemonPlaceMultiOrderCall ==
    /\ request.is_none
    /\ \E order_list \in SeqsUpTo(LemonBatchDicts, MaxBulk) :
          \E answers \in [1..Len(order_list) -> LemonAnswers] :
              LemonFinished("place_multi_order", order_list, TRUE, answers,
                            LemonPlaceMultiOrder(order_list, held, TRUE, answers,
                                                 Running(clock), <<>>))
    /\ UNCHANGED <<market_close_handle, clock, held, paper>>
    /\ UNCHANGED <<thVars, orderVars, portfolioVars, positionVars, sandboxVars>>

InitLemon ==
    /\ market_close_handle = None
    /\ clock = None
    /\ held \in PfDicts
    /\ paper = None
    /\ broker_calls = <<>>
    /\ log_records = <<>>
    /\ request = NoneObj
    /\ outcome = NoneObj
    /\ TradeHandlerIdle
    /\ OrderIdle
    /\ PortfolioIdle
    /\ PositionIdle
    /\ SandboxIdle

NextLemon == LemonPlaceOrderCall \/ LemonPlaceMultiOrderCall

SpecLemon == InitLemon /\ [][NextLemon]_vars


(***************************************************************************)
(*                    PROPERTIES OF THE ADAPTERS                           *)
(***************************************************************************)

Calls == Range(broker_calls)
TradeCalls == {c \in Calls : c.call \in {"submit_order", "close_position"}}

\* The single order of a place_order request, when it was given as an Order.
TheOrder == request.orders[1].order

OversellRequest ==
    /\ ~request.is_none
    /\ request.op = "place_order"
    /\ ~request.orders[1].is_dict
    /\ TheOrder.order_side.value = "sell"
    /\ TheOrder.quantity_mode.value = "shares"
    /\ held[TheOrder.symbol] > 0
    /\ TheOrder.quantity > held[TheOrder.symbol]

\* C4: a sell order for more shares than the position holds reaches the
\* broker as a request for exactly the held amount, a warning is logged and
\* place_order does not raise (the market being open, so that nothing else
\* stops the order).
C4_SellClampedToAvailable ==
    (OversellRequest /\ MarketIsOpen(request.clock)) =>
        /\ outcome.raised \in {None, "APIError"}
        /\ TradeCalls # {}
        /\ \A c \in TradeCalls :
              \/ c.call = "close_position"
              \/ c.qty = Some(held[TheOrder.symbol])
        /\ "warning" \in Range(log_records)

\* ---- Lemon ----

LemonOrder == request.orders[1]

LemonValidArgs ==
    /\ LemonOrder.side \in {"buy", "sell"}
    /\ LemonOrder.quantity >= 0
    /\ LemonOrder.quantity_type \in {"amount", "value"}

\* What the portfolio holds of an ISIN: nothing when pf_dict does not list it.
LemonAvailable(isin) == IF isin \in DOMAIN held THEN held[isin].quantity ELSE 0

\* The order amount after value-to-shares translation and sell clamping.
LemonFinalAmount ==
    LET translated == IF LemonOrder.quantity_type = "amount" THEN LemonOrder.quantity
                      ELSE ValueToAmount(LemonOrder.side, LemonOrder.quantity)
        available == LemonAvailable(LemonOrder.isin)
    IN  IF LemonOrder.side = "sell" /\ translated > available
        THEN available ELSE translated

\* C5: whenever the final order amount of Lemon.place_order is <= 0, a sell
\* of an ISIN that pf_dict does not list included, no order is created at the
\* broker, the dismissal is logged and place_order returns without raising.
C5_NothingToTradeIsDismissed ==
    (/\ ~request.is_none
     /\ request.op = "place_order"
     /\ LemonValidArgs
     /\ LemonFinalAmount <= 0) =>
        /\ outcome.raised = None
        /\ \A c \in Calls : c.call # "orders.create"
        /\ "warning" \in Range(log_records)

\* ---- batches ----

BulkRequest == ~request.is_none /\ request.op = "place_bulk_orders"

\* C6: place_bulk_orders attempts every order of its input and returns one
\* result per input order, in input order, whatever happens to one of them
\* (the market being open).
C6_BatchAlwaysCompletes ==
    (BulkRequest /\ MarketIsOpen(request.clock)) =>
        /\ outcome.raised = None
        /\ Len(outcome.value) = Len(request.orders)
        /\ Cardinality({i \in 1..Len(broker_calls) :
                           broker_calls[i].call \in {"submit_order", "close_position"}})
              = Len(request.orders)
        /\ \A k \in 1..Len(request.orders) :
              outcome.value[k].symbol = request.orders[k].order.symbol

\* C7: an order the broker refuses or fails during place_bulk_orders comes
\* back as an Order with status REJECTED, and nothing is raised to the caller.
C7_FailureBecomesRejected ==
    (BulkRequest /\ MarketIsOpen(request.clock)) =>
        \A k \in 1..Len(request.orders) :
            request.answers[k] \in {"rejected", "APIError"} =>
                /\ outcome.raised = None
                /\ outcome.value[k].status = Member("OrderStatus", "rejected")

\* ---- trades ----

\* The orders of a get_trades response whose normalized status is FILLED.
FilledOrders ==
    SelectSeq(request.orders, LAMBDA b : ORDER_STATUS_MAP(b.status) = "filled")

\* C21: get_trades returns one Trade for exactly the closed orders whose
\* normalized status is FILLED, in their order: none for a canceled, rejected
\* or expired order; each Trade carries its order's fill price and fill
\* quantity, and fees 0 on a paper account and the per-order fee otherwise.
C21_TradesOfFilledOrders ==
    (~request.is_none /\ request.op = "get_trades") =>
        /\ outcome.raised = None
        /\ Len(outcome.value) = Len(FilledOrders)
        /\ \A i \in 1..Len(FilledOrders) :
              /\ outcome.value[i].id = FilledOrders[i].id
              /\ outcome.value[i].execution_price
                    = FilledOrders[i].filled_avg_price.value
              /\ outcome.value[i].execution_quantity
                    = FilledOrders[i].filled_qty.value
              /\ outcome.value[i].fees = (IF paper THEN 0 ELSE OrderFee)
              /\ outcome.value[i].fees >= 0

\* ---- market hours ----

\* C8: with market_close_handle = "raise", place_order called while the
\* market is closed or about to close raises, and the only SDK call it has
\* made by then is the clock query: no position lookup, no submit_order, no
\* close_position, for buys and sells alike.
C8_RaiseBeforeBrokerCall ==
    (/\ ~request.is_none
     /\ request.op = "place_order"
     /\ market_close_handle = "raise"
     /\ ~MarketIsOpen(request.clock)) =>
        /\ outcome.raised # None
        /\ \A c \in Calls : c.call = "get_clock"

C8_Witness ==
    /\ ~request.is_none
    /\ request.op = "place_order"
    /\ market_close_handle = "raise"
    /\ ~request.clock.is_open
    /\ ~request.orders[1].is_dict
    /\ TheOrder.order_side.value = "sell"
    /\ outcome.raised = "ValueError"
    /\ broker_calls = <<[call |-> "get_clock"]>>

\* C9: unless market_close_handle is "ignore", no submit_order or
\* close_position call is made while the market is closed or closes within
\* market_close_offset minutes.
C9_NoTradeCallWhileClosed ==
    market_close_handle # "ignore" => \A c \in TradeCalls : c.market_open

\* The places of the submit_order / close_position calls in broker_calls.
TradeCallPlaces ==
    {i \in 1..Len(broker_calls) :
        broker_calls[i].call \in {"submit_order", "close_position"}}

\* C24: with market_close_handle = "wait", a place_order call made while the
\* market is closed or within market_close_offset minutes of closing waits
\* for the next market open and then submits the order exactly once: the
\* one submission comes after the clock query, the market being open by
\* then, and nothing is raised on account of the market; a call that raises
\* before it (an invalid order) submits nothing.
C24_WaitThenSubmitOnce ==
    (/\ ~request.is_none
     /\ request.op = "place_order"
     /\ market_close_handle = "wait"
     /\ ~MarketIsOpen(request.clock)) =>
        /\ \A c \in TradeCalls : c.market_open
        /\ outcome.raised = "ValueError" => broker_calls = <<>>
        /\ outcome.raised \in {None, "APIError"} =>
              /\ Len(broker_calls) = 2
              /\ broker_calls[1].call = "get_clock"
              /\ TradeCallPlaces = {2}
              /\ "info" \in Range(log_records)
              /\ clock = ClockAtNextOpen
        /\ outcome.raised \notin {None, "APIError"} => TradeCallPlaces = {}

C24_Witness ==
    /\ ~request.is_none
    /\ request.op = "place_order"
    /\ market_close_handle = "wait"
    /\ request.clock = [is_open |-> TRUE, next_close_minutes |-> 1]
    /\ outcome.raised = None
    /\ Len(broker_calls) = 2
    /\ broker_calls[2].call = "submit_order"
    /\ broker_calls[2].side = "sell"
    /\ broker_calls[2].market_open
    /\ clock = ClockAtNextOpen

(***************************************************************************)
(*               PORTFOLIO (tradelib/model/portfolio.py)                   *)
(*                                                                         *)
(* The positions are the objects the Portfolio code reads: each has an     *)
(* asset_id and a market_value (Position.to_dict of data_model.py).  The   *)
(* class in TradeHandlerService/portfolio.py has the same refresh, named   *)
(* update.                                                                 *)
(***************************************************************************)

MarketValues == {-100, 0, 100}

APosition(id, mv) == [asset_id |-> id, symbol |-> SymbolOf[id], market_value |-> mv]

\* Position lists get_positions() can return: at most one position per
\* asset.
PositionLists ==
    {<<>>}
    \cup {<<APosition(id, mv)>> : id \in {"id-AAPL", "id-MSFT"}, mv \in MarketValues}
    \cup {<<APosition("id-AAPL", a), APosition("id-MSFT", b)>> :
              a \in MarketValues, b \in MarketValues}

\* Order lists get_orders() can return.
OrderLists == {<<>>, <<"order-1">>}

Backends == [positions : PositionLists, orders : OrderLists]

\* Longest run of refreshes against an unchanged backend.
MaxRefresh == 3

\* sum(position.market_value for position in self.positions)
TotalValue(positions) ==
    SeqSum([i \in 1..Len(positions) |-> positions[i].market_value])

RefreshedAppending(pf, backend) ==
    [positions |-> pf.positions \o backend.positions,
     trades |-> pf.trades \o backend.orders,
     total_value |-> TotalValue(pf.positions \o backend.positions)]

\* Portfolio.initialize (lines 27-31; update in the older class): the three
\* attributes after the call.
Refreshed(pf, backend) ==
    [positions |-> backend.positions,
     trades |-> backend.orders,
     total_value |-> TotalValue(backend.positions)]

\* A float quotient as numpy computes it: x / 0 is nan for x = 0 and
\* infinite otherwise, and nothing is raised.
Quotient(n, d) ==
    IF d # 0 THEN [kind |-> "number", num |-> n, den |-> d]
    ELSE IF n = 0 THEN [kind |-> "nan"]
    ELSE [kind |-> "inf"]

\* Portfolio.get_portfolio_weights (lines 15-20).  Without positions
\* from_records gives a frame without columns and df["market_value"] raises
\* KeyError.
PortfolioWeights(positions) ==
    IF positions = <<>> THEN [raised |-> "KeyError", value |-> <<>>]
    ELSE LET pf_value == TotalValue(positions)
         IN  [raised |-> None,
              value |-> [i \in 1..Len(positions) |->
                            [asset_id |-> positions[i].asset_id,
                             market_value |-> positions[i].market_value,
                             w |-> Quotient(positions[i].market_value, pf_value)]]]

PortfolioInitialize ==
    /\ refreshes < MaxRefresh
    /\ portfolio' = Refreshed(portfolio, trading_backend)
    /\ refreshes' = refreshes + 1
    /\ pf_call' = [op |-> "initialize", raised |-> None, value |-> <<>>]
    /\ UNCHANGED trading_backend
    /\ UNCHANGED <<thVars, orderVars, adapterVars, positionVars, sandboxVars>>

PortfolioGetTotalValue ==
    /\ portfolio' = [portfolio EXCEPT !.total_value = TotalValue(portfolio.positions)]
    /\ pf_call' = [op |-> "get_total_value", raised |-> None,
                   value |-> <<TotalValue(portfolio.positions)>>]
    /\ UNCHANGED <<trading_backend, refreshes>>
    /\ UNCHANGED <<thVars, orderVars, adapterVars, positionVars, sandboxVars>>

PortfolioGetPortfolioWeights ==
    /\ pf_call' = [op |-> "get_portfolio_weights"] @@ PortfolioWeights(portfolio.positions)
    /\ UNCHANGED <<portfolio, trading_backend, refreshes>>
    /\ UNCHANGED <<thVars, orderVars, adapterVars, positionVars, sandboxVars>>

\* The broker's state changes between two calls of the Portfolio.
BackendChanges ==
    /\ \E b \in Backends : b # trading_backend /\ trading_backend' = b
    /\ refreshes' = 0
    /\ UNCHANGED <<portfolio, pf_call>>
    /\ UNCHANGED <<thVars, orderVars, adapterVars, positionVars, sandboxVars>>

\* Portfolio.__init__ (lines 8-13): empty lists, then one initialize().
InitPortfolio ==
    /\ trading_backend \in Backends
    /\ portfolio = Refreshed([positions |-> <<>>, trades |-> <<>>, total_value |-> 0],
                             trading_backend)
    /\ refreshes = 1
    /\ pf_call = [op |-> "__init__", raised |-> None, value |-> <<>>]
    /\ TradeHandlerIdle
    /\ OrderIdle
    /\ AdapterIdle
    /\ PositionIdle
    /\ SandboxIdle

NextPortfolio ==
    \/ PortfolioInitialize
    \/ PortfolioGetTotalValue
    \/ PortfolioGetPortfolioWeights
    \/ BackendChanges

SpecPortfolio == InitPortfolio /\ [][NextPortfolio]_vars

\* C16: after n >= 1 consecutive refreshes against a backend whose state
\* does not change, positions is the backend's position list (not that list
\* appended n times), trades is its order list and total_value is the sum of
\* market_value over those positions: the same as after one refresh.
C16_RefreshIdempotent ==
    refreshes >= 1 =>
        /\ portfolio.positions = trading_backend.positions
        /\ portfolio.trades = trading_backend.orders
        /\ portfolio.total_value = TotalValue(trading_backend.positions)
        /\ portfolio = Refreshed([positions |-> <<>>, trades |-> <<>>,
                                  total_value |-> 0], trading_backend)

C16_Witness ==
    /\ refreshes = 3
    /\ pf_call.op = "initialize"
    /\ Len(portfolio.positions) = 2
    /\ portfolio.total_value = 200
    /\ portfolio.trades = <<"order-1">>

Weights == pf_call.value

\* C17: get_portfolio_weights on a portfolio whose total value is 0 raises;
\* it never returns a weight that is NaN or infinite; when the total value
\* is > 0 every weight is market_value / total value and the weights sum to 1.
C17_ZeroTotalRaises ==
    pf_call.op = "get_portfolio_weights" =>
        /\ TotalValue(portfolio.positions) = 0 => pf_call.raised # None
        /\ pf_call.raised = None =>
              \A i \in 1..Len(Weights) : Weights[i].w.kind = "number"
        /\ TotalValue(portfolio.positions) > 0 =>
              /\ pf_call.raised = None
              /\ Len(Weights) = Len(portfolio.positions)
              /\ \A i \in 1..Len(Weights) :
                    /\ Weights[i].w.num = portfolio.positions[i].market_value
                    /\ Weights[i].w.den = TotalValue(portfolio.positions)
              /\ SeqSum([i \in 1..Len(Weights) |-> Weights[i].w.num])
                    = TotalValue(portfolio.positions)

(***************************************************************************)
(*                 POSITION (tradelib/model/order.py)                      *)
(*                                                                         *)
(* average_price is a quotient; it is kept as an exact fraction num/den.   *)
(***************************************************************************)

RECURSIVE Gcd(_, _)
Gcd(a, b) == IF b = 0 THEN a ELSE Gcd(b, a % b)

\* The fraction n/d (d # 0) in lowest terms, the denominator positive.
Fraction(n, d) ==
    LET g == Gcd(Abs(n), Abs(d))
        sign == IF d < 0 THEN -1 ELSE 1
    IN  [num |-> sign * (n \div g), den |-> sign * (d \div g)]

ExecutionPrices == {150, 160}
ExecutionQuantities == {0, 50, 100}

\* What a caller passes to Position.update: a Trade (its order's side, its
\* execution price and quantity), or something that is no Trade.
UpdateArguments ==
    [is_trade : {TRUE}, side : OrderSideValues,
     execution_price : ExecutionPrices, execution_quantity : ExecutionQuantities]
    \cup {[is_trade |-> FALSE]}

\* Most Position.update calls on one Position.
MaxTrades == 3

PositionBuySimpleAverage(pos, trade) ==
    LET quantity == pos.quantity + trade.execution_quantity
    IN  IF quantity = 0
        THEN [raised |-> "ZeroDivisionError",
              position |-> [pos EXCEPT !.quantity = quantity]]
        ELSE [raised |-> None,
              position |-> [quantity |-> quantity,
                            average_price |->
                                Fraction(pos.average_price.num
                                            + trade.execution_price * pos.average_price.den,
                                         2 * pos.average_price.den)]]

\* The BUY branch (lines 94-97).  self.quantity is increased before the
\* division, which raises ZeroDivisionError when the new quantity is 0.
PositionBuy(pos, trade) ==
    LET quantity == pos.quantity + trade.execution_quantity
        \* total_cost + trade_cost, over the denominator of average_price
        cost == pos.average_price.num * pos.quantity
                   + trade.execution_price * trade.execution_quantity
                        * pos.average_price.den
    IN  IF quantity = 0
        THEN [raised |-> "ZeroDivisionError",
              position |-> [pos EXCEPT !.quantity = quantity]]
        ELSE [raised |-> None,
              position |-> [quantity |-> quantity,
                            average_price |->
                                Fraction(cost, pos.average_price.den * quantity)]]

PositionSellRepriced(pos, trade) ==
    LET quantity == pos.quantity - trade.execution_quantity
    IN  [raised |-> None,
         position |-> [quantity |-> quantity,
                       average_price |-> IF quantity = 0 THEN Fraction(0, 1)
                                         ELSE Fraction(trade.execution_price, 1)]]

\* The else branch (lines 98-101).
PositionSell(pos, trade) ==
    LET quantity == pos.quantity - trade.execution_quantity
    IN  [raised |-> None,
         position |-> [quantity |-> quantity,
                       average_price |-> IF quantity = 0 THEN Fraction(0, 1)
                                         ELSE pos.average_price]]

\* Position.update (lines 90-102)
PositionUpdated(pos, trade) ==
    IF ~trade.is_trade THEN [raised |-> "ValueError", position |-> pos]
    ELSE IF Member("OrderSide", trade.side) = Member("OrderSide", "buy")
    THEN PositionBuy(pos, trade)
    ELSE PositionSell(pos, trade)

PositionUpdate ==
    /\ Len(applied) < MaxTrades
    /\ \E trade \in UpdateArguments :
          LET r == PositionUpdated(position, trade)
          IN  /\ position' = r.position
              /\ applied' = Append(applied, [trade |-> trade, before |-> position,
                                             after |-> r.position,
                                             raised |-> r.raised])
    /\ UNCHANGED <<thVars, orderVars, adapterVars, portfolioVars, sandboxVars>>

EmptyPosition == [quantity |-> 0, average_price |-> Fraction(0, 1)]

\* A Position as its constructor leaves it: empty (the defaults) or given a
\* quantity and an average price.
InitPosition ==
    /\ position \in {EmptyPosition,
                      [quantity |-> 100, average_price |-> Fraction(150, 1)]}
    /\ applied = <<>>
    /\ TradeHandlerIdle
    /\ OrderIdle
    /\ AdapterIdle
    /\ PortfolioIdle
    /\ SandboxIdle

NextPosition == PositionUpdate

SpecPosition == InitPosition /\ [][NextPosition]_vars

Sells == {i \in 1..Len(applied) :
             applied[i].trade.is_trade /\ applied[i].trade.side = "sell"}

\* C18: a SELL trade decreases quantity by its execution_quantity; the
\* average_price is left as it was when the remaining quantity is not 0 and
\* is 0 when the remaining quantity is 0: the execution price of a sell never
\* enters it.
C18_SellKeepsAveragePrice ==
    \A i \in Sells :
        /\ applied[i].raised = None
        /\ applied[i].after.quantity
              = applied[i].before.quantity - applied[i].trade.execution_quantity
        /\ applied[i].after.quantity # 0 =>
              applied[i].after.average_price = applied[i].before.average_price
        /\ applied[i].after.quantity = 0 =>
              applied[i].after.average_price = Fraction(0, 1)

C18_Witness ==
    /\ Len(applied) = 3
    /\ Sells = {2, 3}
    /\ applied[1].trade.is_trade
    /\ applied[1].before = EmptyPosition
    /\ applied[2].after.quantity = 50
    /\ applied[2].trade.execution_price = 160
    /\ applied[2].after.average_price = Fraction(150 * 100, 100)
    /\ position = EmptyPosition

OnlyBuys ==
    \A i \in 1..Len(applied) :
        applied[i].trade.is_trade /\ applied[i].trade.side = "buy"

\* C19: after any sequence of BUY trades applied to a Position that started
\* empty, quantity is the sum of the execution quantities and
\* average_price * quantity is the sum of execution_price * execution_quantity.
C19_VolumeWeightedAverage ==
    (applied # <<>> /\ applied[1].before = EmptyPosition /\ OnlyBuys) =>
        /\ position.quantity
              = SeqSum([i \in 1..Len(applied) |-> applied[i].trade.execution_quantity])
        /\ position.average_price.num * position.quantity
              = SeqSum([i \in 1..Len(applied) |->
                           applied[i].trade.execution_price
                              * applied[i].trade.execution_quantity])
                   * position.average_price.den

C19_Witness ==
    /\ Len(applied) = 2
    /\ applied[1].before = EmptyPosition
    /\ OnlyBuys
    /\ applied[1].trade.execution_price = 150
    /\ applied[1].trade.execution_quantity = 100
    /\ applied[2].trade.execution_price = 160
    /\ applied[2].trade.execution_quantity = 50
    /\ position.quantity = 150
    /\ position.average_price = Fraction(100 * 150 + 50 * 160, 150)

(***************************************************************************)
(*        SANDBOX BACKEND (tradelib/trading/clients/sandbox.py)            *)
(*                                                                         *)
(* self.orders and self.trades are dicts keyed "ORD-n" / "TRD-n" with n    *)
(* counting from 1: they are kept as sequences, entry n being the value    *)
(* under the n-th key.  self.positions is a dict keyed by symbol: a        *)
(* function on the symbols, NoneObj where the dict has no entry.           *)
(*                                                                         *)
(* The class leaves TradeBackend.get_tradeable_assets abstract, so         *)
(* SandboxBackend() itself raises TypeError; the backend modelled here is  *)
(* an instance of a subclass that adds that one method and nothing else.   *)
(***************************************************************************)

SandboxSymbols == {"AAPL"}

\* What _get_current_price returns (lines 149-157): the last close, or None
\* when the lookup raised.
CurrentPrices == {NoneObj, Some(10), Some(20)}

SandboxQuantities == {5, 20}

\* Most orders a SandboxBackend is given.
MaxOrders == 2

\* Orders a caller passes: Order objects as the constructor leaves them
\* (market orders, limit orders at 15) and dicts of keyword arguments.
SandboxOrderObjects ==
    {[MarketOrder(sym, side, q, mode) EXCEPT
          !.order_type = Member("OrderType", type),
          !.limit_price = IF type = "limit" THEN Some(15) ELSE NoneObj] :
        sym \in SandboxSymbols, side \in OrderSideValues,
        q \in SandboxQuantities, mode \in QuantityModeValues,
        type \in {"market", "limit"}}

SandboxOrderDicts ==
    {[symbol |-> "AAPL", quantity |-> q, order_side |-> Str("buy"),
      quantity_mode |-> Member("QuantityMode", "notional"),
      status |-> Member("OrderStatus", "pending"),
      order_type |-> Str("market"),
      stop_price |-> NoneObj, limit_price |-> NoneObj] : q \in {-1, 5}}

SandboxInputs ==
    {AnOrder(o) : o \in SandboxOrderObjects} \cup {ADict(a) : a \in SandboxOrderDicts}

\* Lines 89-127: whether the order executes at current_price, and at which
\* price.
Execution(order, current_price) ==
    LET buy == order.order_side = Member("OrderSide", "buy")
        sell == order.order_side = Member("OrderSide", "sell")
        No == [executed |-> FALSE]
    IN  IF order.order_type = Member("OrderType", "market")
        THEN [executed |-> TRUE, execution_price |-> current_price]
        ELSE IF order.order_type = Member("OrderType", "limit")
        THEN IF \/ buy /\ current_price <= order.limit_price.value
                \/ sell /\ current_price >= order.limit_price.value
             THEN [executed |-> TRUE, execution_price |-> order.limit_price.value]
             ELSE No
        ELSE IF order.order_type = Member("OrderType", "stop")
        THEN IF \/ buy /\ current_price >= order.stop_price.value
                \/ sell /\ current_price <= order.stop_price.value
             THEN [executed |-> TRUE, execution_price |-> current_price]
             ELSE No
        ELSE IF order.order_type = Member("OrderType", "stop_limit")
        THEN IF /\ \/ buy /\ current_price >= order.stop_price.value
                   \/ sell /\ current_price <= order.stop_price.value
                /\ \/ buy /\ current_price <= order.limit_price.value
                   \/ sell /\ current_price >= order.limit_price.value
             THEN [executed |-> TRUE, execution_price |-> order.limit_price.value]
             ELSE No
        ELSE No

\* SandboxBackend._calculate_fees (lines 198-200)
CalculateFees(sb, quantity, price) == sb.transaction_fee

\* Trade.validate (order.py lines 68-74): the exception raised, or None.
TradeValidate(trade) ==
    IF trade.execution_quantity < 0 THEN "ValueError"
    ELSE IF trade.execution_price < 0 THEN "ValueError"
    ELSE IF trade.fees < 0 THEN "ValueError"
    ELSE None

\* SandboxBackend._update_position (lines 159-188): self.positions afterwards.
UpdatePosition(positions, trade) ==
    LET symbol == trade.order.symbol
        pos == positions[symbol]
        quantity == IF trade.order.order_side = Member("OrderSide", "buy")
                    THEN trade.execution_quantity
                    ELSE -trade.execution_quantity
    IN  IF ~pos.is_none
        THEN LET total_quantity == pos.quantity + quantity
                 \* total_cost, over the denominator of average_price
                 total_cost == pos.average_price.num * pos.quantity
                                 + trade.execution_price * quantity
                                      * pos.average_price.den
             IN  IF total_quantity = 0
                 THEN [positions EXCEPT ![symbol] = NoneObj]
                 ELSE [positions EXCEPT ![symbol] =
                          [is_none |-> FALSE,
                           quantity |-> total_quantity,
                           average_price |->
                               Fraction(total_cost,
                                        pos.average_price.den * total_quantity)]]
        ELSE [positions EXCEPT ![symbol] =
                 [is_none |-> FALSE,
                  quantity |-> quantity,
                  average_price |-> Fraction(trade.execution_price, 1)]]

\* SandboxBackend._update_cash (lines 190-196): self.cash afterwards.
UpdateCash(cash, trade) ==
    LET total_cost == trade.execution_price * trade.execution_quantity + trade.fees
    IN  IF trade.order.order_side = Member("OrderSide", "buy")
        THEN cash - total_cost
        ELSE cash + total_cost

\* SandboxBackend._execute_order (lines 81-147) for the order stored under
\* key n, the price lookup answering current_price.  The Trade holds the
\* Order object itself; `order` below is that order's key.
ExecuteOrder(sb, n, current_price) ==
    IF current_price.is_none THEN [raised |-> None, sb |-> sb]
    ELSE
    LET order == sb.orders[n]
        x == Execution(order, current_price.value)
    IN  IF ~x.executed THEN [raised |-> None, sb |-> sb]
        ELSE
        LET counted == [sb EXCEPT !.next_trade_id = @ + 1]
            trade == [order |-> order,
                      execution_price |-> x.execution_price,
                      execution_quantity |-> order.quantity,
                      fees |-> CalculateFees(sb, order.quantity, x.execution_price),
                      id |-> sb.next_trade_id]
        IN  IF TradeValidate(trade) # None
            THEN [raised |-> TradeValidate(trade), sb |-> counted]
            ELSE [raised |-> None,
                  sb |-> [counted EXCEPT
                             !.trades = Append(@, [trade EXCEPT !.order = n]),
                             !.orders[n].status = Str("FILLED"),
                             !.positions = UpdatePosition(@, trade),
                             !.cash = UpdateCash(@, trade)]]

\* SandboxBackend.place_order (lines 48-58).  The method returns the Order
\* object it stored.
SandboxPlaceOrder(sb, given, current_price) ==
    LET built == IF given.is_dict THEN PostInit(given.args)
                 ELSE [raised |-> None, order |-> given.order]
    IN  IF built.raised # None THEN [raised |-> built.raised, sb |-> sb]
        ELSE
        LET order_id == sb.next_order_id
            stored == [sb EXCEPT
                          !.next_order_id = @ + 1,
                          !.orders = Append(@, [order_id |-> order_id] @@ built.order)]
            r == ExecuteOrder(stored, order_id, current_price)
        IN  IF r.raised # None THEN r
            ELSE [raised |-> None, value |-> r.sb.orders[order_id], sb |-> r.sb]

\* SandboxBackend.place_bulk_orders (lines 67-71)
RECURSIVE SandboxPlaceBulkOrders(_, _, _, _)
SandboxPlaceBulkOrders(sb, order_list, prices, placed) ==
    IF order_list = <<>>
    THEN [raised |-> None, value |-> placed, sb |-> sb]
    ELSE LET r == SandboxPlaceOrder(sb, Head(order_list), Head(prices))
         IN  IF r.raised # None THEN r
             ELSE SandboxPlaceBulkOrders(r.sb, Tail(order_list), Tail(prices),
                                         Append(placed, r.value))

\* SandboxBackend.cancel_order (lines 60-65); order_id n stands for "ORD-n".
SandboxCancelOrder(sb, order_id) ==
    IF order_id \in 1..Len(sb.orders) /\ sb.orders[order_id].status = Str("OPEN")
    THEN [sb EXCEPT !.orders[order_id].status = Str("CANCELED")]
    ELSE sb

SbFinished(op, args, prices, r) ==
    /\ sandbox' = r.sb
    /\ sb_call' = [op |-> op, args |-> args, prices |-> prices,
                   before |-> sandbox, raised |-> r.raised]

SbPlaceOrder ==
    /\ Len(sandbox.orders) < MaxOrders
    /\ \E given \in SandboxInputs, current_price \in CurrentPrices :
          SbFinished("place_order", <<given>>, <<current_price>>,
                     SandboxPlaceOrder(sandbox, given, current_price))
    /\ UNCHANGED <<thVars, orderVars, adapterVars, portfolioVars, positionVars>>

\* Batches of two orders.
SbPlaceBulkOrders ==
    /\ Len(sandbox.orders) + 2 <= MaxOrders
    /\ \E order_list \in [1..2 -> SandboxInputs], prices \in [1..2 -> CurrentPrices] :
          SbFinished("place_bulk_orders", order_list, prices,
                     SandboxPlaceBulkOrders(sandbox, order_list, prices, <<>>))
    /\ UNCHANGED <<thVars, orderVars, adapterVars, portfolioVars, positionVars>>

SbCancelOrder ==
    /\ \E order_id \in 1..(MaxOrders + 1) :
          SbFinished("cancel_order", <<order_id>>, <<>>,
                     [raised |-> None, sb |-> SandboxCancelOrder(sandbox, order_id)])
    /\ UNCHANGED <<thVars, orderVars, adapterVars, portfolioVars, positionVars>>

\* SandboxBackend.__init__ (lines 14-21), with the cash and the fee the
\* caller chose.
InitSandbox ==
    /\ sandbox \in [cash : {100}, transaction_fee : {0, 1},
                    positions : {[sym \in SandboxSymbols |-> NoneObj]},
                    orders : {<<>>}, trades : {<<>>},
                    next_order_id : {1}, next_trade_id : {1}]
    /\ sb_call = [op |-> None]
    /\ TradeHandlerIdle
    /\ OrderIdle
    /\ AdapterIdle
    /\ PortfolioIdle
    /\ PositionIdle

NextSandbox == SbPlaceOrder \/ SbPlaceBulkOrders \/ SbCancelOrder

SpecSandbox == InitSandbox /\ [][NextSandbox]_vars


\* The positions the sandbox holds.
SandboxPositions ==
    {sandbox.positions[sym] : sym \in {x \in SandboxSymbols : ~sandbox.positions[x].is_none}}

\* C22: after any sequence of place_order / place_bulk_orders calls every
\* position has quantity >= 0 and cash is >= 0: a sell executes for at most
\* the held quantity, a buy for at most the available cash.
C22_WithinInventory ==
    /\ \A pos \in SandboxPositions : pos.quantity >= 0
    /\ sandbox.cash >= 0

\* The orders that were executed: those a Trade was made for.
ExecutedOrders == {sandbox.trades[t].order : t \in 1..Len(sandbox.trades)}

\* C23: the status of every order in orders is one of the five OrderStatus
\* members, and an executed order has status OrderStatus.FILLED.
C23_StatusIsOrderStatus ==
    \A n \in 1..Len(sandbox.orders) :
        /\ sandbox.orders[n].status
              \in {Member("OrderStatus", v) : v \in OrderStatusValues}
        /\ n \in ExecutedOrders =>
              sandbox.orders[n].status = Member("OrderStatus", "filled")

\* The last call was a place_order that executed its order.
PlacedAndExecuted ==
    /\ sb_call.op = "place_order"
    /\ sb_call.raised = None
    /\ Len(sandbox.trades) = Len(sb_call.before.trades) + 1

\* The trade of that call and its order.
LastTrade == sandbox.trades[Len(sandbox.trades)]
LastOrder == sandbox.orders[LastTrade.order]

\* Quantity held of a symbol in a state of the sandbox: 0 without a position.
HeldQuantity(sb, symbol) ==
    IF sb.positions[symbol].is_none THEN 0 ELSE sb.positions[symbol].quantity

\* By how much the last call raised the position and the cash.
QuantityChange ==
    HeldQuantity(sandbox, LastOrder.symbol)
        - HeldQuantity(sb_call.before, LastOrder.symbol)
CashChange == sandbox.cash - sb_call.before.cash

\* C25: an executed order with quantity_mode NOTIONAL and quantity v at
\* execution price p changes the position by v / p shares and the cash by v
\* plus or minus the fees; with quantity_mode SHARES the position changes by
\* order.quantity shares.
C25_NotionalConverted ==
    PlacedAndExecuted =>
        /\ LastOrder.quantity_mode = Member("QuantityMode", "notional") =>
              /\ Abs(QuantityChange) * LastTrade.execution_price = LastOrder.quantity
              /\ Abs(CashChange) \in {LastOrder.quantity + LastTrade.fees,
                                      LastOrder.quantity - LastTrade.fees}
        /\ LastOrder.quantity_mode = Member("QuantityMode", "shares") =>
              Abs(QuantityChange) = LastOrder.quantity

\* A status that says canceled: the member, or the text cancel_order writes.
SaysCanceled(status) == status.value \in {"canceled", "CANCELED"}

\* C26: cancel_order on an order in orders that is still pending leaves it
\* with status canceled; on an executed order or an unknown id it leaves
\* orders, trades, positions and cash as they were.
C26_CancelPending ==
    sb_call.op = "cancel_order" =>
        LET order_id == sb_call.args[1]
            known == order_id \in 1..Len(sb_call.before.orders)
        IN  IF known /\ order_id \notin ExecutedOrders
            THEN SaysCanceled(sandbox.orders[order_id].status)
            ELSE sandbox = sb_call.before

\* Position.update applied to what the sandbox held before the last call.
AsPositionUpdate ==
    LET before == sb_call.before.positions[LastOrder.symbol]
    IN  PositionUpdated(IF before.is_none THEN EmptyPosition
                        ELSE [quantity |-> before.quantity,
                              average_price |-> before.average_price],
                        [is_trade |-> TRUE,
                         side |-> LastOrder.order_side.value,
                         execution_price |-> LastTrade.execution_price,
                         execution_quantity |-> LastTrade.execution_quantity])

\* C27: _update_position and Position.update give the same quantity and the
\* same average_price for every buy and for every sell of no more than is
\* held, starting from a position that is not short; a position sold to
\* exactly 0 is closed.
C27_SameAccounting ==
    (/\ PlacedAndExecuted
     /\ HeldQuantity(sb_call.before, LastOrder.symbol) >= 0
     /\ LastOrder.order_side.value = "sell" =>
           LastTrade.execution_quantity
              <= HeldQuantity(sb_call.before, LastOrder.symbol)) =>
        LET after == sandbox.positions[LastOrder.symbol]
        IN  /\ AsPositionUpdate.raised = None
            /\ AsPositionUpdate.position.quantity
                  = HeldQuantity(sandbox, LastOrder.symbol)
            /\ after.is_none => AsPositionUpdate.position = EmptyPosition
            /\ ~after.is_none =>
                  AsPositionUpdate.position.average_price = after.average_price

\* C28: an executed buy changes cash by -(execution_price *
\* execution_quantity + fees), an executed sell by +(execution_price *
\* execution_quantity - fees).
C28_FeesAreACost ==
    PlacedAndExecuted =>
        LET value == LastTrade.execution_price * LastTrade.execution_quantity
        IN  /\ LastOrder.order_side.value = "buy" =>
                  CashChange = -(value + LastTrade.fees)
            /\ LastOrder.order_side.value = "sell" =>
                  CashChange = value - LastTrade.fees

\* The updates whose argument is a Trade that passes Trade.validate and,
\* for a sell, asks for no more than the position held.
ValidUpdates ==
    {i \in 1..Len(applied) :
        /\ applied[i].trade.is_trade
        /\ applied[i].trade.execution_quantity >= 0
        /\ applied[i].trade.execution_price >= 0
        /\ applied[i].trade.side = "sell" =>
              applied[i].trade.execution_quantity <= applied[i].before.quantity}

\* C30: on a Position reached from an empty Position, every update with a
\* valid Trade (execution_quantity 0 included) that sells no more than is
\* held completes without raising and leaves quantity >= 0.
C30_UpdateIsTotal ==
    (applied # <<>> /\ applied[1].before = EmptyPosition) =>
        \A i \in ValidUpdates :
            (\A j \in 1..i : j \in ValidUpdates) =>
                /\ applied[i].raised = None
                /\ applied[i].after.quantity >= 0

=============================================================================
